---------------------------- MODULE Spec2Model ----------------------------
(***************************************************************************)
(* A model of the crawl-extract-classify-aggregate pipeline of            *)
(* URLCat.py (WebsiteAnalyzer.crawl_website, create_taxonomy_data) and of  *)
(* URLCat_GSC.py (WebsiteAnalyzer.crawl, build_taxonomy).                  *)
(*                                                                         *)
(* Python strings are sequences of one-character strings, so that          *)
(* urlparse, urljoin, str.split, str.lower and the substring test `in`     *)
(* are computed character by character as the library computes them.       *)
(***************************************************************************)
EXTENDS Integers, Sequences, FiniteSets, TLC

(***************************************************************************)
(* Bounds of the model.                                                    *)
(***************************************************************************)
\* the largest page budget (max_pages) a run is started with
MaxBudget == 3
\* the total number of <a href> elements over all pages of the site
MaxSiteLinks == 3
\* the number of path segments of the URLs given to the hierarchy analyzers
MaxSegments == 3
\* the number of words of the texts given to the keyword extraction
MaxTokens == 6
\* the number of headings of the pages given to the classifiers
MaxHeadings == 1

(***************************************************************************)
(* Python str and list helpers.                                            *)
(***************************************************************************)
LowerLetters == <<"a", "b", "c", "d", "e", "f", "g", "h", "i", "j", "k", "l", "m", "n", "o", "p", "q", "r", "s", "t", "u", "v", "w", "x", "y", "z">>
UpperLetters == <<"A", "B", "C", "D", "E", "F", "G", "H", "I", "J", "K", "L", "M", "N", "O", "P", "Q", "R", "S", "T", "U", "V", "W", "X", "Y", "Z">>
Digits == <<"0", "1", "2", "3", "4", "5", "6", "7", "8", "9">>

Range(s) == {s[i] : i \in DOMAIN s}

\* str.isalpha() of one character
IsAlphaChar(c) == c \in Range(LowerLetters) \cup Range(UpperLetters)

\* str.isalpha(): non-empty and every character a letter
IsAlpha(s) == Len(s) > 0 /\ \A i \in DOMAIN s : IsAlphaChar(s[i])

LowerChar(c) ==
    IF c \in Range(UpperLetters)
    THEN LowerLetters[CHOOSE i \in DOMAIN UpperLetters : UpperLetters[i] = c]
    ELSE c

\* str.lower()
Lower(s) == [i \in DOMAIN s |-> LowerChar(s[i])]

\* s[i:] with a 1-based i
Drop(s, i) == SubSeq(s, i, Len(s))

\* str.find(c, start) for a one-character c, 1-based; 0 when absent
FindFrom(s, c, start) ==
    LET hits == {i \in start..Len(s) : s[i] = c}
    IN  IF hits = {} THEN 0 ELSE CHOOSE i \in hits : \A j \in hits : i <= j

Find(s, c) == FindFrom(s, c, 1)

\* sub in s, for strings
Contains(s, sub) ==
    \/ sub = <<>>
    \/ \E i \in 1..(Len(s) - Len(sub) + 1) :
           s[i] = sub[1] /\ SubSeq(s, i, i + Len(sub) - 1) = sub

\* s.startswith(p), s.endswith(p)
StartsWith(s, p) == Len(s) >= Len(p) /\ SubSeq(s, 1, Len(p)) = p
EndsWith(s, p) == Len(s) >= Len(p) /\ SubSeq(s, Len(s) - Len(p) + 1, Len(s)) = p

\* str.split(c) for a one-character separator: empty pieces are kept
RECURSIVE SplitOn(_, _)
SplitOn(s, c) ==
    LET i == Find(s, c)
    IN  IF i = 0 THEN <<s>>
        ELSE <<SubSeq(s, 1, i - 1)>> \o SplitOn(Drop(s, i + 1), c)

\* str.split(): split on runs of whitespace, no empty pieces
RECURSIVE SplitWhitespace(_)
SplitWhitespace(s) ==
    IF s = <<>> THEN <<>>
    ELSE IF s[1] = " " THEN SplitWhitespace(Tail(s))
    ELSE LET i == Find(s, " ")
         IN  IF i = 0 THEN <<s>>
             ELSE <<SubSeq(s, 1, i - 1)>> \o SplitWhitespace(Drop(s, i + 1))

\* sep.join(parts)
RECURSIVE Join(_, _)
Join(sep, parts) ==
    IF parts = <<>> THEN <<>>
    ELSE IF Len(parts) = 1 THEN parts[1]
    ELSE parts[1] \o sep \o Join(sep, Tail(parts))

\* [x for x in s if P(x)]
RECURSIVE SelectNonEmpty(_)
SelectNonEmpty(parts) ==
    IF parts = <<>> THEN <<>>
    ELSE IF parts[1] # <<>> THEN <<parts[1]>> \o SelectNonEmpty(Tail(parts))
    ELSE SelectNonEmpty(Tail(parts))

\* x in list
InList(x, list) == \E i \in DOMAIN list : list[i] = x

\* the Python value None: no string, and not a sequence of characters
None == <<"None">>

(***************************************************************************)
(* urllib.parse.urlparse and urljoin, as far as the crawler uses them.     *)
(***************************************************************************)
SchemeChars == Range(LowerLetters) \cup Range(UpperLetters) \cup Range(Digits)
               \cup {"+", "-", "."}

Min(a, b) == IF a < b THEN a ELSE b

\* s up to its first c (all of s when c is absent), and s after it
Before(s, c) == LET i == Find(s, c) IN IF i > 0 THEN SubSeq(s, 1, i - 1) ELSE s
After(s, c) == LET i == Find(s, c) IN IF i > 0 THEN Drop(s, i + 1) ELSE <<>>

\* urlsplit: the index of the ":" that ends the scheme, 0 when the url has no
\* scheme (the ":" is not first, the first character is a letter and every
\* character before the ":" is a scheme character)
SchemeEnd(url) ==
    LET i == Find(url, ":")
    IN  IF /\ i > 1
           /\ IsAlphaChar(url[1])
           /\ \A k \in 1..(i - 1) : url[k] \in SchemeChars
        THEN i ELSE 0

\* urlsplit: the index of the first of "/", "?", "#" after the leading "//",
\* or one past the end
NetlocEnd(rest) ==
    LET ends == {FindFrom(rest, c, 3) : c \in {"/", "?", "#"}} \ {0}
    IN  IF ends = {} THEN Len(rest) + 1
        ELSE CHOOSE e \in ends : \A f \in ends : e <= f

\* urlsplit: the fragment is what follows the first "#", the query what
\* follows the first "?" before it, and the path is the rest
ParsePath(scheme, netloc, rest) ==
    [scheme |-> scheme, netloc |-> netloc,
     path |-> Before(Before(rest, "#"), "?"),
     query |-> After(Before(rest, "#"), "?"),
     fragment |-> After(rest, "#")]

\* urlsplit: the netloc is what follows a leading "//" up to NetlocEnd
ParseNetloc(scheme, rest) ==
    IF StartsWith(rest, <<"/", "/">>)
    THEN ParsePath(scheme, SubSeq(rest, 3, NetlocEnd(rest) - 1),
                   Drop(rest, NetlocEnd(rest)))
    ELSE ParsePath(scheme, <<>>, rest)

ParseScheme(url, i) ==
    IF i > 0 THEN ParseNetloc(Lower(SubSeq(url, 1, i - 1)), Drop(url, i + 1))
    ELSE ParseNetloc(<<>>, url)

\* urlparse(url): scheme, netloc, path, query and fragment
urlparse(url) == ParseScheme(url, SchemeEnd(url))

\* urljoin(base, href) for the two forms of href the pages of the model hold:
\* an href with a scheme of its own is returned as it is, and an href that is
\* an absolute path ("/...") takes the scheme and the netloc of the base
urljoin(base, href) ==
    IF href = <<>> THEN base
    ELSE IF SchemeEnd(href) > 0 THEN href
    ELSE SubSeq(base, 1, SchemeEnd(base)) \o <<"/", "/">>
         \o urlparse(base).netloc \o href

\* ("http", "https")
HttpSchemes == {<<"h", "t", "t", "p">>, <<"h", "t", "t", "p", "s">>}

(***************************************************************************)
(* URL Scoper.                                                             *)
(***************************************************************************)
\* URLCat.py WebsiteAnalyzer.is_valid_url: the netloc alone decides
is_valid_url(url, domain) ==
    LET parsed == urlparse(url)
    IN  \/ parsed.netloc = domain
        \/ parsed.netloc = <<>>
        \/ EndsWith(parsed.netloc, <<".">> \o domain)

\* URLCat_GSC.py WebsiteAnalyzer.is_valid_url: the scheme and the netloc
gsc_is_valid_url(url, domain) ==
    LET parsed == urlparse(url)
    IN  /\ parsed.scheme \in HttpSchemes
        /\ \/ parsed.netloc = domain
           \/ EndsWith(parsed.netloc, <<".">> \o domain)
           \/ parsed.netloc = <<>>

(***************************************************************************)
(* URL Hierarchy Analyzer.                                                 *)
(***************************************************************************)
\* the segments without a final file name (a last segment holding a ".")
PathPartsNoFile(url) ==
    LET parts == SelectNonEmpty(SplitOn(urlparse(url).path, "/"))
    IN  IF parts # <<>> /\ Find(parts[Len(parts)], ".") > 0
        THEN SubSeq(parts, 1, Len(parts) - 1) ELSE parts

\* [part for part in parsed.path.split('/') if part]
PathParts(url) == SelectNonEmpty(SplitOn(urlparse(url).path, "/"))

\* parts[-1].split('.')[-1] if parts and '.' in parts[-1] else <absent>
LastExtension(parts, absent) ==
    IF parts # <<>> /\ Find(parts[Len(parts)], ".") > 0
    THEN LET pieces == SplitOn(parts[Len(parts)], ".") IN pieces[Len(pieces)]
    ELSE absent

\* URLCat.py WebsiteAnalyzer.analyze_url_hierarchy
analyze_url_hierarchy(url) ==
    LET path_parts == PathParts(url)
    IN  [depth |-> Len(path_parts),
         path_parts |-> path_parts,
         has_query |-> urlparse(url).query # <<>>,
         file_extension |-> LastExtension(path_parts, None)]

\* URLCat_GSC.py WebsiteAnalyzer.hierarchy_info
hierarchy_info(url) ==
    LET parts == PathParts(url)
    IN  [depth |-> Len(parts),
         file_ext |-> LastExtension(parts, <<"h", "t", "m", "l">>)]

(***************************************************************************)
(* Content Classifier.                                                     *)
(***************************************************************************)
\* URLCat.py classify_content: the dict `categories`, in insertion order
categories ==
    << [name |-> "product",
        keywords |-> << <<"p", "r", "o", "d", "u", "c", "t">>, <<"b", "u", "y">>, <<"s", "h", "o", "p">>, <<"s", "t", "o", "r", "e">>, <<"p", "r", "i", "c", "e">>,
                        <<"c", "a", "r", "t">>, <<"p", "u", "r", "c", "h", "a", "s", "e">>, <<"i", "t", "e", "m">>, <<"c", "a", "t", "a", "l", "o", "g">> >>],
       [name |-> "blog",
        keywords |-> << <<"b", "l", "o", "g">>, <<"p", "o", "s", "t">>, <<"a", "r", "t", "i", "c", "l", "e">>, <<"n", "e", "w", "s">>, <<"s", "t", "o", "r", "y">>,
                        <<"r", "e", "a", "d">>, <<"a", "u", "t", "h", "o", "r">>, <<"p", "u", "b", "l", "i", "s", "h", "e", "d">> >>],
       [name |-> "about",
        keywords |-> << <<"a", "b", "o", "u", "t">>, <<"c", "o", "m", "p", "a", "n", "y">>, <<"t", "e", "a", "m">>, <<"h", "i", "s", "t", "o", "r", "y">>,
                        <<"m", "i", "s", "s", "i", "o", "n">>, <<"v", "i", "s", "i", "o", "n">>, <<"w", "h", "o", " ", "w", "e", " ", "a", "r", "e">> >>],
       [name |-> "contact",
        keywords |-> << <<"c", "o", "n", "t", "a", "c", "t">>, <<"p", "h", "o", "n", "e">>, <<"e", "m", "a", "i", "l">>, <<"a", "d", "d", "r", "e", "s", "s">>,
                        <<"l", "o", "c", "a", "t", "i", "o", "n">>, <<"r", "e", "a", "c", "h", " ", "u", "s">>, <<"g", "e", "t", " ", "i", "n", " ", "t", "o", "u", "c", "h">> >>],
       [name |-> "service",
        keywords |-> << <<"s", "e", "r", "v", "i", "c", "e">>, <<"s", "o", "l", "u", "t", "i", "o", "n">>, <<"c", "o", "n", "s", "u", "l", "t", "i", "n", "g">>, <<"s", "u", "p", "p", "o", "r", "t">>,
                        <<"w", "h", "a", "t", " ", "w", "e", " ", "d", "o">>, <<"o", "f", "f", "e", "r", "i", "n", "g", "s">> >>],
       [name |-> "help",
        keywords |-> << <<"h", "e", "l", "p">>, <<"f", "a", "q">>, <<"s", "u", "p", "p", "o", "r", "t">>, <<"d", "o", "c", "u", "m", "e", "n", "t", "a", "t", "i", "o", "n">>,
                        <<"g", "u", "i", "d", "e">>, <<"t", "u", "t", "o", "r", "i", "a", "l">>, <<"h", "o", "w", " ", "t", "o">> >>],
       [name |-> "legal",
        keywords |-> << <<"p", "r", "i", "v", "a", "c", "y">>, <<"t", "e", "r", "m", "s">>, <<"l", "e", "g", "a", "l">>, <<"p", "o", "l", "i", "c", "y">>,
                        <<"a", "g", "r", "e", "e", "m", "e", "n", "t">>, <<"d", "i", "s", "c", "l", "a", "i", "m", "e", "r">>, <<"c", "o", "o", "k", "i", "e", "s">> >>] >>

\* URLCat_GSC.py WebsiteAnalyzer._CATEGORY_KEYWORDS, in insertion order
CATEGORY_KEYWORDS ==
    << [name |-> "product",
        keywords |-> << <<"p", "r", "o", "d", "u", "c", "t">>, <<"b", "u", "y">>, <<"s", "h", "o", "p">>, <<"p", "r", "i", "c", "e">>, <<"c", "a", "r", "t">> >>],
       [name |-> "blog",
        keywords |-> << <<"b", "l", "o", "g">>, <<"p", "o", "s", "t">>, <<"a", "r", "t", "i", "c", "l", "e">>, <<"n", "e", "w", "s">> >>],
       [name |-> "about",
        keywords |-> << <<"a", "b", "o", "u", "t">>, <<"c", "o", "m", "p", "a", "n", "y">>, <<"t", "e", "a", "m">>, <<"h", "i", "s", "t", "o", "r", "y">> >>],
       [name |-> "contact",
        keywords |-> << <<"c", "o", "n", "t", "a", "c", "t">>, <<"p", "h", "o", "n", "e">>, <<"e", "m", "a", "i", "l">>, <<"a", "d", "d", "r", "e", "s", "s">> >>],
       [name |-> "service",
        keywords |-> << <<"s", "e", "r", "v", "i", "c", "e">>, <<"s", "o", "l", "u", "t", "i", "o", "n">>, <<"s", "u", "p", "p", "o", "r", "t">> >>],
       [name |-> "help",
        keywords |-> << <<"h", "e", "l", "p">>, <<"f", "a", "q">>, <<"g", "u", "i", "d", "e">>, <<"t", "u", "t", "o", "r", "i", "a", "l">> >>],
       [name |-> "legal",
        keywords |-> << <<"p", "r", "i", "v", "a", "c", "y">>, <<"t", "e", "r", "m", "s">>, <<"p", "o", "l", "i", "c", "y">>, <<"l", "e", "g", "a", "l">> >>] >>

\* the text a page is classified by: title, description, the headings joined
\* and the stored text, joined by single spaces and lower-cased
ClassifiedText(content) ==
    Lower(content.title \o <<" ">> \o content.description \o <<" ">>
          \o Join(<<" ">>, content.headings) \o <<" ">> \o content.text_content)

\* sum(1 for keyword in keywords if keyword in text)
KeywordScore(keywords, text) ==
    Cardinality({i \in DOMAIN keywords : Contains(text, keywords[i])})

\* scores[category], a list in the dict's insertion order
Scores(table, text) ==
    [i \in DOMAIN table |-> KeywordScore(table[i].keywords, text)]

\* max(scores.values())
MaxScore(scores) ==
    CHOOSE m \in Range(scores) : \A x \in Range(scores) : x <= m

\* a last-wins maximum, as `>=` in place of `>` would give
RECURSIVE PyMaxKeyLast(_, _)
PyMaxKeyLast(scores, best) ==
    LET after == {i \in DOMAIN scores : i > best /\ scores[i] >= scores[best]}
    IN  IF after = {} THEN best
        ELSE PyMaxKeyLast(scores, CHOOSE i \in after : \A j \in after : i <= j)

\* max(scores, key=scores.get): the keys are visited in insertion order and
\* a later key replaces the best one only when its score is strictly greater
RECURSIVE PyMaxKey(_, _)
PyMaxKey(scores, best) ==
    LET after == {i \in DOMAIN scores : i > best /\ scores[i] > scores[best]}
    IN  IF after = {} THEN best
        ELSE PyMaxKey(scores, CHOOSE i \in after : \A j \in after : i <= j)

\* max(scores, key=scores.get) if max(scores.values()) > 0 else 'other'
ClassifyBy(table, content) ==
    LET scores == Scores(table, ClassifiedText(content))
    IN  IF MaxScore(scores) > 0 THEN table[PyMaxKey(scores, 1)].name
        ELSE "other"

\* URLCat.py WebsiteAnalyzer.classify_content
classify_content(content) == ClassifyBy(categories, content)

\* URLCat_GSC.py WebsiteAnalyzer.classify_content
gsc_classify_content(page) == ClassifyBy(CATEGORY_KEYWORDS, page)

(***************************************************************************)
(* Keyword Extractor.                                                      *)
(***************************************************************************)
\* len(word) > MinWordLen
MinWordLen == 3
\* Counter(words).most_common(TopKeywords)
TopKeywords == 5
\* Counter(all_keywords).most_common(TopTopics)
TopTopics == 10
\* text_content[:TextLimit]
TextLimit == 1000

\* TextBlob(text).words: for a text of letters, digits and blanks, its words
Words(text) == SplitWhitespace(text)

\* the distinct elements of a list in first-occurrence order: the keys of
\* Counter(words), and list(dict.fromkeys(words))
RECURSIVE FirstOccurrences(_)
FirstOccurrences(words) ==
    IF words = <<>> THEN <<>>
    ELSE LET before == FirstOccurrences(SubSeq(words, 1, Len(words) - 1))
             w == words[Len(words)]
         IN  IF InList(w, before) THEN before ELSE Append(before, w)

\* Counter(words)[w]
CounterCount(words, w) == Cardinality({i \in DOMAIN words : words[i] = w})

\* a list without its i-th element
RemoveAt(list, i) == SubSeq(list, 1, i - 1) \o SubSeq(list, i + 1, Len(list))

\* sorted(items, key=count, reverse=True)[:n]: the sort is stable, so among
\* equal counts the item inserted first comes first
RECURSIVE LargestFirst(_, _)
LargestFirst(items, n) ==
    IF items = <<>> \/ n = 0 THEN <<>>
    ELSE LET best == CHOOSE i \in DOMAIN items :
                         /\ \A j \in DOMAIN items : items[j][2] <= items[i][2]
                         /\ \A j \in 1..(i - 1) : items[j][2] < items[i][2]
         IN  <<items[best]>> \o LargestFirst(RemoveAt(items, best), n - 1)

\* Counter(words).most_common(n)
MostCommon(words, n) ==
    LET keys == FirstOccurrences(words)
    IN  LargestFirst([i \in DOMAIN keys |->
                          <<keys[i], CounterCount(words, keys[i])>>], n)

\* a filter that keeps the words of length MinWordLen too
RECURSIVE QualifyingWordsFrom3(_)
QualifyingWordsFrom3(words) ==
    IF words = <<>> THEN <<>>
    ELSE IF Len(words[1]) >= MinWordLen /\ IsAlpha(words[1])
         THEN <<Lower(words[1])>> \o QualifyingWordsFrom3(Tail(words))
         ELSE QualifyingWordsFrom3(Tail(words))

\* [word.lower() for word in blob.words if len(word) > 3 and word.isalpha()]
RECURSIVE QualifyingWords(_)
QualifyingWords(words) ==
    IF words = <<>> THEN <<>>
    ELSE IF Len(words[1]) > MinWordLen /\ IsAlpha(words[1])
         THEN <<Lower(words[1])>> \o QualifyingWords(Tail(words))
         ELSE QualifyingWords(Tail(words))

\* URLCat.py crawl_website, lines 176-185, and URLCat_GSC.py crawl, lines
\* 133-135: the keywords of a page's stored text
extract_keywords(text) ==
    IF text = <<>> THEN <<>>
    ELSE MostCommon(QualifyingWords(Words(text)), TopKeywords)

(***************************************************************************)
(* The site that is crawled: the environment of a run.                     *)
(***************************************************************************)
\* the seed URL given to WebsiteAnalyzer, and the two other pages of the site
Seed == <<"h", "t", "t", "p", "s", ":", "/", "/", "a", ".", "c", "o", "m">>
PageA == <<"h", "t", "t", "p", "s", ":", "/", "/", "a", ".", "c", "o", "m", "/", "x">>
PageB == <<"h", "t", "t", "p", "s", ":", "/", "/", "a", ".", "c", "o", "m", "/", "x", "/", "y", ".", "p", "d", "f">>
Pages == {Seed, PageA, PageB}

\* the href attributes a page may hold: a relative link to PageA, an absolute
\* link to PageB, a link to PageA with a fragment, and a mail link
Hrefs == {<<"/", "x">>, <<"h", "t", "t", "p", "s", ":", "/", "/", "a", ".", "c", "o", "m", "/", "x", "/", "y", ".", "p", "d", "f">>, <<"/", "x", "#", "f">>, <<"m", "a", "i", "l", "t", "o", ":", "m">>}

\* what the HTML parser finds in each page besides its links
PageContent(p) ==
    CASE p = Seed ->
           [title |-> <<"S", "h", "o", "p">>, description |-> <<>>,
            headings |-> <<>>, text_content |-> <<"c", "a", "r", "t", " ", "c", "a", "r", "t", " ", "s", "h", "o", "p">>]
      [] p = PageA ->
           [title |-> <<"H", "i", "s", "t", "o", "r", "y">>, description |-> <<>>,
            headings |-> <<>>, text_content |-> <<>>]
      [] OTHER ->
           [title |-> <<"N", "o", " ", "T", "i", "t", "l", "e">>, description |-> <<>>,
            headings |-> <<>>, text_content |-> <<"z", "e", "b", "r", "a">>]

\* the sites with at most n <a href> elements in all: every page either
\* fails to load or loads with a list of hrefs
RECURSIVE SitesWithLinks(_)
SitesWithLinks(n) ==
    IF n = 0
    THEN {[p \in Pages |-> [ok |-> b[p], hrefs |-> <<>>]] : b \in [Pages -> BOOLEAN]}
    ELSE LET fewer == SitesWithLinks(n - 1)
         IN  fewer \cup
             UNION {{[s EXCEPT ![p].hrefs = Append(@, h)] :
                        p \in {q \in Pages : s[q].ok}, h \in Hrefs} : s \in fewer}

Sites == SitesWithLinks(MaxSiteLinks)

\* url.split('#')[0]
StripFragment(url) == SplitOn(url, "#")[1]

\* requests.get(url) followed by raise_for_status(): a URL that is not http(s)
\* raises, the fragment is not part of the request, and a page that is not
\* served raises
Served(url, s) ==
    /\ urlparse(url).scheme \in HttpSchemes
    /\ StripFragment(url) \in Pages
    /\ s[StripFragment(url)].ok

(***************************************************************************)
(* Content Extractor.                                                      *)
(***************************************************************************)
\* text[:n]
Truncate(text, n) == SubSeq(text, 1, Min(Len(text), n))

\* the record extract_page_content returns from its except branch
ErrorPage(url) ==
    [url |-> url, title |-> <<"E", "r", "r", "o", "r">>, description |-> <<>>, headings |-> <<>>,
     text_content |-> <<>>, word_count |-> 0, links |-> <<>>, status |-> "error"]

\* URLCat.py extract_page_content, lines 88-92: each href is joined to the
\* page's URL and kept when it is valid and not yet in the list
RECURSIVE ExtractLinks(_, _, _, _)
ExtractLinks(url, hrefs, domain, links) ==
    IF hrefs = <<>> THEN links
    ELSE LET href == urljoin(url, Head(hrefs))
         IN  ExtractLinks(url, Tail(hrefs), domain,
                 IF is_valid_url(href, domain) /\ ~InList(href, links)
                 THEN Append(links, href) ELSE links)

\* URLCat_GSC.py extract_page_content, lines 68-72: each href is joined to the
\* page's URL, cut at its first '#', and kept when it is valid
RECURSIVE GscCollectLinks(_, _, _)
GscCollectLinks(url, hrefs, domain) ==
    IF hrefs = <<>> THEN <<>>
    ELSE LET href == StripFragment(urljoin(url, Head(hrefs)))
             rest == GscCollectLinks(url, Tail(hrefs), domain)
         IN  IF gsc_is_valid_url(href, domain) THEN <<href>> \o rest ELSE rest

\* URLCat_GSC.py extract_page_content, line 73: list(dict.fromkeys(links))
GscExtractLinks(url, hrefs, domain) ==
    FirstOccurrences(GscCollectLinks(url, hrefs, domain))

\* URLCat.py WebsiteAnalyzer.extract_page_content
extract_page_content(url, s, domain) ==
    IF ~Served(url, s) THEN ErrorPage(url)
    ELSE LET c == PageContent(StripFragment(url))
         IN  [url |-> url, title |-> c.title, description |-> c.description,
              headings |-> c.headings,
              text_content |-> Truncate(c.text_content, TextLimit),
              word_count |-> Len(SplitWhitespace(c.text_content)),
              links |-> ExtractLinks(url, s[StripFragment(url)].hrefs, domain, <<>>),
              status |-> "success"]

\* URLCat_GSC.py WebsiteAnalyzer.extract_page_content
gsc_extract_page_content(url, s, domain) ==
    IF ~Served(url, s) THEN ErrorPage(url)
    ELSE LET c == PageContent(StripFragment(url))
             text_content == Truncate(c.text_content, TextLimit)
         IN  [url |-> url, title |-> c.title, description |-> c.description,
              headings |-> c.headings,
              text_content |-> text_content,
              word_count |-> Len(SplitWhitespace(text_content)),
              links |-> GscExtractLinks(url, s[StripFragment(url)].hrefs, domain),
              status |-> "success"]

(***************************************************************************)
(* Taxonomy Aggregator.                                                    *)
(***************************************************************************)
\* a counter that counts every key once
CounterDistinct(list) == [k \in Range(list) |-> 1]

\* Counter(list): each key with the number of its occurrences
Counter(list) ==
    [k \in Range(list) |-> Cardinality({i \in DOMAIN list : list[i] = k})]

\* sum(counter.values())
RECURSIVE SumOver(_, _)
SumOver(counter, keys) ==
    IF keys = {} THEN 0
    ELSE LET k == CHOOSE x \in keys : TRUE
         IN  counter[k] + SumOver(counter, keys \ {k})

Total(counter) == SumOver(counter, DOMAIN counter)

\* x or 'html'
OrHtml(x) == IF x = None \/ x = <<>> THEN <<"h", "t", "m", "l">> ELSE x

\* all_keywords.extend([kw[0] for kw in page['keywords']]) over the pages
RECURSIVE AllKeywords(_)
AllKeywords(data) ==
    IF data = <<>> THEN <<>>
    ELSE [i \in DOMAIN data[1].keywords |-> data[1].keywords[i][1]]
         \o AllKeywords(Tail(data))

\* the lookup page['category'] of a record without that key raises
KeyError == [raised |-> "KeyError"]

\* no taxonomy is computed yet, or there are no data to compute it from
NoTaxonomy == [raised |-> "None"]

\* URLCat.py create_taxonomy_data
create_taxonomy_data(data) ==
    IF \E i \in DOMAIN data : "category" \notin DOMAIN data[i] THEN KeyError
    ELSE [categories |-> Counter([i \in DOMAIN data |-> data[i].category]),
          hierarchy_levels |-> Counter([i \in DOMAIN data |-> data[i].hierarchy.depth]),
          file_types |-> Counter([i \in DOMAIN data |->
                                     OrHtml(data[i].hierarchy.file_extension)]),
          topics |-> MostCommon(AllKeywords(data), TopTopics)]

\* URLCat_GSC.py build_taxonomy
build_taxonomy(data) ==
    IF \E i \in DOMAIN data : "category" \notin DOMAIN data[i] THEN KeyError
    ELSE [categories |-> Counter([i \in DOMAIN data |-> data[i].category]),
          depth |-> Counter([i \in DOMAIN data |-> data[i].hierarchy.depth]),
          file_types |-> Counter([i \in DOMAIN data |-> data[i].hierarchy.file_ext])]

(***************************************************************************)
(* Crawl Controller: a run of URLCat.py and then a run of URLCat_GSC.py on  *)
(* the same site with the same budget.                                     *)
(***************************************************************************)
VARIABLES
    site,           \* the site: for each page whether it loads, and its hrefs
    max_pages,      \* self.max_pages
    to_crawl,       \* URLCat.py crawl_website: the pending queue
    crawled,        \* URLCat.py crawl_website: the visited set
    site_data,      \* URLCat.py self.site_data: the result set
    taxonomy,       \* URLCat.py main: create_taxonomy_data(site_data)
    pc,             \* URLCat.py: "loop" or "returned"
    fetched,        \* URLCat.py: the URLs given to extract_page_content, in order
    todo,           \* URLCat_GSC.py crawl: the pending queue
    done,           \* URLCat_GSC.py crawl: the visited set
    gsc_site_data,  \* URLCat_GSC.py self.site_data: the result set
    gsc_taxonomy,   \* URLCat_GSC.py: build_taxonomy(site_data)
    gsc_pc,         \* URLCat_GSC.py: "loop" or "returned"
    gsc_fetched,    \* URLCat_GSC.py: the URLs given to extract_page_content, in order
    fn,             \* the pure function under test, "" in a crawl
    fn_in,          \* its argument
    fn_out          \* its results, <<>> until it is applied

envVars == <<site, max_pages>>
catVars == <<to_crawl, crawled, site_data, taxonomy, pc, fetched>>
gscVars == <<todo, done, gsc_site_data, gsc_taxonomy, gsc_pc, gsc_fetched>>
fnVars == <<fn, fn_in, fn_out>>
vars == <<envVars, catVars, gscVars, fnVars>>

\* URLCat.py __init__: self.base_url = base_url
base_url == Seed

\* both __init__: self.domain = urlparse(base_url).netloc
domain == urlparse(Seed).netloc

\* str.rstrip('/')
RECURSIVE RStripSlash(_)
RStripSlash(s) ==
    IF s # <<>> /\ s[Len(s)] = "/" THEN RStripSlash(SubSeq(s, 1, Len(s) - 1)) ELSE s

\* URLCat_GSC.py __init__: self.base_url = base_url.rstrip('/')
gsc_base_url == RStripSlash(Seed)

\* the state of both programs as crawl_website and crawl enter their loops
CrawlInit ==
    /\ to_crawl = <<base_url>>
    /\ crawled = {}
    /\ site_data = <<>>
    /\ taxonomy = NoTaxonomy
    /\ pc = "loop"
    /\ fetched = <<>>
    /\ todo = <<gsc_base_url>>
    /\ done = {}
    /\ gsc_site_data = <<>>
    /\ gsc_taxonomy = NoTaxonomy
    /\ gsc_pc = "loop"
    /\ gsc_fetched = <<>>

\* no crawl runs while a pure function is applied
CrawlIdle ==
    /\ site = [p \in Pages |-> [ok |-> FALSE, hrefs |-> <<>>]]
    /\ max_pages = 0
    /\ to_crawl = <<>> /\ crawled = {} /\ site_data = <<>>
    /\ taxonomy = NoTaxonomy /\ pc = "idle" /\ fetched = <<>>
    /\ todo = <<>> /\ done = {} /\ gsc_site_data = <<>>
    /\ gsc_taxonomy = NoTaxonomy /\ gsc_pc = "idle" /\ gsc_fetched = <<>>

Init ==
    /\ site \in Sites
    /\ max_pages \in 0..MaxBudget
    /\ CrawlInit
    /\ fn = "" /\ fn_in = <<>> /\ fn_out = <<>>

\* a run that forgets to mark the URL as visited
MarkCrawledNever(set, url) == set

\* crawled.add(current_url), done.add(current)
MarkCrawled(set, url) == set \cup {url}

\* URLCat.py crawl_website, lines 168-187: the record of a page that loaded,
\* with its category, its hierarchy and its keywords
Enriched(page_data, current_url) ==
    [category |-> classify_content(page_data),
     hierarchy |-> analyze_url_hierarchy(current_url),
     keywords |-> extract_keywords(page_data.text_content)] @@ page_data

\* URLCat_GSC.py crawl, lines 130-136
GscEnriched(page, current) ==
    [category |-> gsc_classify_content(page),
     hierarchy |-> hierarchy_info(current),
     keywords |-> extract_keywords(page.text_content)] @@ page

\* a run that appends the record of every page, loaded or not
RecordedAlways(data, page_data, current_url) ==
    IF page_data.status = "success"
    THEN Append(data, Enriched(page_data, current_url))
    ELSE Append(data, page_data)

\* URLCat.py crawl_website, lines 168-187: only a page that loaded is appended
Recorded(data, page_data, current_url) ==
    IF page_data.status = "success"
    THEN Append(data, Enriched(page_data, current_url))
    ELSE data

\* URLCat_GSC.py crawl, lines 130-136
GscRecorded(data, page, current) ==
    IF page.status = "success" THEN Append(data, GscEnriched(page, current))
    ELSE data

\* a frontier that does not look for the link in the queue
RECURSIVE EnqueueAgain(_, _, _)
EnqueueAgain(queue, visited, links) ==
    IF links = <<>> THEN queue
    ELSE EnqueueAgain(IF Head(links) \notin visited
                      THEN Append(queue, Head(links)) ELSE queue,
                      visited, Tail(links))

\* a frontier that is a stack: a new link goes to the head of the queue
RECURSIVE EnqueueFirst(_, _, _)
EnqueueFirst(queue, visited, links) ==
    IF links = <<>> THEN queue
    ELSE EnqueueFirst(IF Head(links) \notin visited /\ ~InList(Head(links), queue)
                      THEN <<Head(links)>> \o queue ELSE queue,
                      visited, Tail(links))

\* URLCat.py crawl_website, lines 190-192: every link that is neither crawled
\* nor queued goes to the tail of the queue
RECURSIVE Enqueue(_, _, _)
Enqueue(queue, visited, links) ==
    IF links = <<>> THEN queue
    ELSE Enqueue(IF Head(links) \notin visited /\ ~InList(Head(links), queue)
                 THEN Append(queue, Head(links)) ELSE queue,
                 visited, Tail(links))

\* a cap on the frontier that is one too high
RECURSIVE GscEnqueueLoose(_, _, _, _)
GscEnqueueLoose(queue, visited, links, budget) ==
    IF links = <<>> THEN queue
    ELSE GscEnqueueLoose(IF /\ Head(links) \notin visited
                            /\ ~InList(Head(links), queue)
                            /\ Cardinality(visited) + Len(queue) <= budget
                         THEN Append(queue, Head(links)) ELSE queue,
                         visited, Tail(links), budget)

\* a cap on the frontier that is one too low
RECURSIVE GscEnqueueTight(_, _, _, _)
GscEnqueueTight(queue, visited, links, budget) ==
    IF links = <<>> THEN queue
    ELSE GscEnqueueTight(IF /\ Head(links) \notin visited
                            /\ ~InList(Head(links), queue)
                            /\ Cardinality(visited) + Len(queue) + 1 < budget
                         THEN Append(queue, Head(links)) ELSE queue,
                         visited, Tail(links), budget)

\* URLCat_GSC.py crawl, lines 137-139: the same, while done and todo together
\* hold fewer than max_pages URLs
RECURSIVE GscEnqueue(_, _, _, _)
GscEnqueue(queue, visited, links, budget) ==
    IF links = <<>> THEN queue
    ELSE GscEnqueue(IF /\ Head(links) \notin visited
                       /\ ~InList(Head(links), queue)
                       /\ Cardinality(visited) + Len(queue) < budget
                    THEN Append(queue, Head(links)) ELSE queue,
                    visited, Tail(links), budget)

\* a loop that runs while the visited count is at most the budget
ContinuesLate(queue, visited, budget) ==
    queue # <<>> /\ Cardinality(visited) <= budget

\* a loop that stops one page short of the budget
ContinuesEarly(queue, visited, budget) ==
    queue # <<>> /\ Cardinality(visited) + 1 < budget

\* the condition of both while loops
Continues(queue, visited, budget) ==
    queue # <<>> /\ Cardinality(visited) < budget

\* URLCat.py crawl_website: one iteration of the while loop
CrawlIteration ==
    /\ pc = "loop"
    /\ Continues(to_crawl, crawled, max_pages)
    /\ LET current_url == Head(to_crawl)
       IN  IF current_url \in crawled
           THEN /\ to_crawl' = Tail(to_crawl)
                /\ UNCHANGED <<crawled, site_data, fetched>>
           ELSE LET page_data == extract_page_content(current_url, site, domain)
                    now == MarkCrawled(crawled, current_url)
                IN  /\ crawled' = now
                    /\ fetched' = Append(fetched, current_url)
                    /\ site_data' = Recorded(site_data, page_data, current_url)
                    /\ to_crawl' = Enqueue(Tail(to_crawl), now, page_data.links)
    /\ UNCHANGED <<taxonomy, pc, envVars, gscVars, fnVars>>

\* URLCat.py crawl_website: the loop condition fails and self.site_data is
\* returned; main then computes the taxonomy of the data, when there is any
CrawlReturn ==
    /\ pc = "loop"
    /\ ~Continues(to_crawl, crawled, max_pages)
    /\ pc' = "returned"
    /\ taxonomy' = IF site_data # <<>> THEN create_taxonomy_data(site_data)
                   ELSE NoTaxonomy
    /\ UNCHANGED <<to_crawl, crawled, site_data, fetched>>
    /\ UNCHANGED <<envVars, gscVars, fnVars>>

\* URLCat_GSC.py crawl: one iteration of the while loop; the program is run
\* on the site after URLCat.py has returned
GscIteration ==
    /\ pc = "returned"
    /\ gsc_pc = "loop"
    /\ Continues(todo, done, max_pages)
    /\ LET current == Head(todo)
       IN  IF current \in done
           THEN /\ todo' = Tail(todo)
                /\ UNCHANGED <<done, gsc_site_data, gsc_fetched>>
           ELSE LET page == gsc_extract_page_content(current, site, domain)
                    now == MarkCrawled(done, current)
                IN  /\ done' = now
                    /\ gsc_fetched' = Append(gsc_fetched, current)
                    /\ gsc_site_data' = GscRecorded(gsc_site_data, page, current)
                    /\ todo' = GscEnqueue(Tail(todo), now, page.links, max_pages)
    /\ UNCHANGED <<gsc_taxonomy, gsc_pc, envVars, catVars, fnVars>>

\* URLCat_GSC.py crawl: the loop condition fails and self.site_data is
\* returned; its taxonomy is computed from this final result set
GscReturn ==
    /\ pc = "returned"
    /\ gsc_pc = "loop"
    /\ ~Continues(todo, done, max_pages)
    /\ gsc_pc' = "returned"
    /\ gsc_taxonomy' = build_taxonomy(gsc_site_data)
    /\ UNCHANGED <<todo, done, gsc_site_data, gsc_fetched>>
    /\ UNCHANGED <<envVars, catVars, fnVars>>

Next ==
    \/ CrawlIteration
    \/ CrawlReturn
    \/ GscIteration
    \/ GscReturn

Spec == Init /\ [][Next]_vars

(***************************************************************************)
(* The pure functions, each applied to inputs drawn from a bounded set.   *)
(***************************************************************************)
\* the sequences over S of length at most n
RECURSIVE SeqsUpTo(_, _)
SeqsUpTo(S, n) ==
    IF n = 0 THEN {<<>>}
    ELSE LET shorter == SeqsUpTo(S, n - 1)
         IN  shorter \cup {Append(q, x) : q \in shorter, x \in S}

\* the pure function is applied once, by the program and by its GSC variant
Apply(name, cat, gsc) ==
    /\ fn = name
    /\ fn_out = <<>>
    /\ fn_out' = [cat |-> cat, gsc |-> gsc]
    /\ UNCHANGED <<fn, fn_in, envVars, catVars, gscVars>>

\* the words the classified pages are made of
ClassifyWords == {<<"S", "h", "o", "p">>, <<"H", "i", "s", "t", "o", "r", "y">>, <<"s", "u", "p", "p", "o", "r", "t">>, <<"f", "a", "q">>, <<"z", "e", "b", "r", "a">>}

ClassifyInputs ==
    [title : ClassifyWords,
     description : ClassifyWords \cup {<<>>},
     headings : SeqsUpTo(ClassifyWords, MaxHeadings),
     text_content : ClassifyWords \cup {<<>>}]

ClassifyInit ==
    /\ CrawlIdle
    /\ fn = "classify" /\ fn_in \in ClassifyInputs /\ fn_out = <<>>

ApplyClassify ==
    Apply("classify", classify_content(fn_in), gsc_classify_content(fn_in))

ClassifySpec == ClassifyInit /\ [][ApplyClassify]_vars

\* the URLs given to the hierarchy analyzers: up to MaxSegments path segments
\* after the host, then a trailing "/" or not, then a query or not
SegmentNames == {<<"x">>, <<"y">>, <<"z", ".", "h", "t", "m", "l">>}

HierarchyInputs ==
    [segments : SeqsUpTo(SegmentNames, MaxSegments),
     slash : BOOLEAN, query : BOOLEAN]

RECURSIVE SlashJoined(_)
SlashJoined(segments) ==
    IF segments = <<>> THEN <<>>
    ELSE <<"/">> \o Head(segments) \o SlashJoined(Tail(segments))

HierarchyUrl(in) ==
    Seed \o SlashJoined(in.segments)
         \o (IF in.slash THEN <<"/">> ELSE <<>>)
         \o (IF in.query THEN <<"?", "q", "=", "1">> ELSE <<>>)

HierarchyInit ==
    /\ CrawlIdle
    /\ fn = "hierarchy" /\ fn_in \in HierarchyInputs /\ fn_out = <<>>

ApplyHierarchy ==
    Apply("hierarchy", analyze_url_hierarchy(HierarchyUrl(fn_in)),
          hierarchy_info(HierarchyUrl(fn_in)))

HierarchySpec == HierarchyInit /\ [][ApplyHierarchy]_vars

\* the texts given to the keyword extraction: up to MaxTokens words
KeywordTokens == {<<"c", "a", "t">>, <<"d", "o", "g">>, <<"b", "i", "r", "d">>, <<"W", "o", "r", "m">>, <<"a", "b", "1", "c", "d">>}

KeywordInputs == SeqsUpTo(KeywordTokens, MaxTokens)

KeywordInit ==
    /\ CrawlIdle
    /\ fn = "keywords" /\ fn_in \in KeywordInputs /\ fn_out = <<>>

\* both programs extract the keywords of the stored text in the same way
ApplyKeywords ==
    Apply("keywords", extract_keywords(Join(<<" ">>, fn_in)),
          extract_keywords(Join(<<" ">>, fn_in)))

KeywordSpec == KeywordInit /\ [][ApplyKeywords]_vars

(***************************************************************************)
(* A run under the scheduling of a sequential program: a loop that can     *)
(* take a step takes it.  The conditions of an iteration and of the return *)
(* are complementary and each of the two changes the queue, the visited    *)
(* set or pc, so a step of Next is possible exactly until both programs    *)
(* have returned; FairSpec is weak fairness of Next with that state        *)
(* predicate written in the place of ENABLED <<Next>>_vars.                *)
(***************************************************************************)
BothReturned == pc = "returned" /\ gsc_pc = "returned"

FairSpec == Spec /\ ([]<>BothReturned \/ []<><<Next>>_vars)

(***************************************************************************)
(* The properties of the crawl.                                            *)
(***************************************************************************)
NoDuplicates(list) ==
    \A i, j \in DOMAIN list : i # j => list[i] # list[j]

\* [page['url'] for page in data]
Urls(data) == [i \in DOMAIN data |-> data[i].url]

\* the visited URLs whose fetch failed, and those whose fetch succeeded
Failed(visited) == {u \in visited : ~Served(u, site)}
Loaded(visited) == {u \in visited : Served(u, site)}

\* C1: in every run of either program no URL is given to
\* extract_page_content twice, whether its fetch succeeded or failed, and no
\* URL has two records in the result set.
C1_NoDuplicateFetch ==
    /\ NoDuplicates(fetched)
    /\ NoDuplicates(gsc_fetched)
    /\ NoDuplicates(Urls(site_data))
    /\ NoDuplicates(Urls(gsc_site_data))

\* a page that was fetched after a failed URL links to that URL again, and a
\* page links to a URL that had been fetched with success, in both programs
LinkedAgain(log, data, targets) ==
    \E i \in DOMAIN data : \E k \in DOMAIN data[i].links :
        /\ data[i].links[k] \in targets
        /\ \E m, n \in DOMAIN log :
              /\ log[m] = data[i].links[k]
              /\ log[n] = data[i].url
              /\ m <= n

C1_Witness ==
    /\ BothReturned
    /\ LinkedAgain(fetched, site_data, Failed(crawled))
    /\ LinkedAgain(gsc_fetched, gsc_site_data, Failed(done))

\* C2: at every point of a run the number of visited URLs, and the number
\* of fetch attempts, is at most max_pages.
C2_BudgetRespected ==
    /\ Cardinality(crawled) <= max_pages
    /\ Len(fetched) <= max_pages
    /\ Cardinality(done) <= max_pages
    /\ Len(gsc_fetched) <= max_pages

\* the budget ends the run of URLCat.py with URLs still pending
C2_Witness ==
    /\ BothReturned
    /\ max_pages >= 2
    /\ Cardinality(crawled) = max_pages /\ to_crawl # <<>>
    /\ Cardinality(done) = max_pages

\* C3: every run of either loop ends, and when it has ended the pending
\* queue is empty or the number of visited URLs equals max_pages.
C3_Termination ==
    /\ <>BothReturned
    /\ [](pc = "returned" =>
            (to_crawl = <<>> \/ Cardinality(crawled) = max_pages))
    /\ [](gsc_pc = "returned" =>
            (todo = <<>> \/ Cardinality(done) = max_pages))

\* both runs end on an empty queue, below the budget, after several fetches
C3_Witness ==
    /\ BothReturned
    /\ to_crawl = <<>> /\ todo = <<>>
    /\ Cardinality(crawled) >= 2 /\ Cardinality(crawled) < max_pages
    /\ Cardinality(done) >= 2 /\ Cardinality(done) < max_pages

SuccessRecords(data, visited) ==
    /\ NoDuplicates(Urls(data))
    /\ Range(Urls(data)) = Loaded(visited)
    /\ Len(data) = Cardinality(Loaded(visited))
    /\ \A i \in DOMAIN data : data[i].status = "success"

RECURSIVE Reach(_)
Reach(set) ==
    LET more == set \cup UNION {Range(extract_page_content(u, site, domain).links) :
                                   u \in set}
    IN  IF more = set THEN set ELSE Reach(more)

\* the same through the links URLCat_GSC.py extracts
RECURSIVE GscReach(_)
GscReach(set) ==
    LET more == set \cup UNION {Range(gsc_extract_page_content(u, site, domain).links) :
                                   u \in set}
    IN  IF more = set THEN set ELSE GscReach(more)

\* the site of a program: its reachable URLs; all of them load
AllLoad(urls) == \A u \in urls : Served(u, site)

HostInScope(url) ==
    \/ urlparse(url).netloc = domain
    \/ urlparse(url).netloc = <<>>
    \/ EndsWith(urlparse(url).netloc, <<".">> \o domain)

\* C8: only URLs of scheme http or https whose host is in scope are accepted,
\* so no URL of another scheme is ever pending or fetched.
C8_OnlyHttpPending ==
    \A u \in Range(to_crawl) \cup crawled \cup Range(todo) \cup done :
        urlparse(u).scheme \in HttpSchemes /\ HostInScope(u)

(***************************************************************************)
(* The properties of the pure functions.                                   *)
(***************************************************************************)
\* the function has been applied to fn_in
Applied == fn_out # <<>>

\* the fixed declaration order of the categories
DeclaredOrder ==
    <<"product", "blog", "about", "contact", "service", "help", "legal">>

\* the categories of the largest score
Maximal(scores) == {i \in DOMAIN scores : \A j \in DOMAIN scores : scores[j] <= scores[i]}

\* the result the claim gives for a table of categories: "other" when every
\* score is 0, otherwise the first category of the largest score
FirstMaximal(table, content) ==
    LET scores == Scores(table, ClassifiedText(content))
        first == CHOOSE i \in Maximal(scores) : \A j \in Maximal(scores) : i <= j
    IN  IF \A i \in DOMAIN scores : scores[i] = 0 THEN "other"
        ELSE DeclaredOrder[first]

\* several categories share a largest score above 0
Tied(table, content) ==
    LET scores == Scores(table, ClassifiedText(content))
    IN  /\ Cardinality(Maximal(scores)) >= 2
        /\ \E i \in DOMAIN scores : scores[i] > 0

\* C7: classify_content returns "other" exactly when every category scores
\* 0, and otherwise the category of the largest score that comes first in
\* the order product, blog, about, contact, service, help, legal, which is
\* the order of both tables.
C7_FirstMaximalCategory ==
    /\ [i \in DOMAIN categories |-> categories[i].name] = DeclaredOrder
    /\ [i \in DOMAIN CATEGORY_KEYWORDS |-> CATEGORY_KEYWORDS[i].name] = DeclaredOrder
    /\ Applied =>
         /\ fn_out.cat = FirstMaximal(categories, fn_in)
         /\ fn_out.gsc = FirstMaximal(CATEGORY_KEYWORDS, fn_in)

\* a page classified under a tie in both tables, won by a category that is
\* neither the first nor the last of the order
C7_Witness ==
    /\ Applied
    /\ Tied(categories, fn_in) /\ Tied(CATEGORY_KEYWORDS, fn_in)
    /\ fn_out.cat \notin {"other", "product", "legal"}
    /\ fn_out.gsc \notin {"other", "product", "legal"}

\* the path /x/y/z.html and the segments of the claim
XYZ == <<<<"x">>, <<"y">>, <<"z", ".", "h", "t", "m", "l">>>>
XY == <<<<"x">>, <<"y">>>>
Html == <<"h", "t", "m", "l">>

\* the URL https://a.com/?q=1
QueryOnly(in) == in.segments = <<>> /\ in.slash /\ in.query

\* C9 as claimed: for the path /x/y/z.html the depth is 2 and the segments
\* are x, y, the file name not being counted, the extension is html, and a
\* query-only URL has depth 0.
C9_FileNameNotCounted ==
    Applied =>
      /\ fn_in.segments = XYZ =>
           /\ fn_out.cat.depth = 2 /\ fn_out.gsc.depth = 2
           /\ fn_out.cat.path_parts = XY
           /\ fn_out.cat.file_extension = Html /\ fn_out.gsc.file_ext = Html
      /\ QueryOnly(fn_in) => fn_out.cat.depth = 0 /\ fn_out.gsc.depth = 0

\* C9 as amended: the segments are all the non-empty pieces of the path, the
\* file name included, and the depth is their number: for /x/y/z.html depth
\* 3, segments x, y, z.html and extension html; for a query-only URL depth 0.
\* The extension is what follows the last "." of the last segment, and when
\* that segment has no "." it is absent in URLCat.py, "html" in URLCat_GSC.py.
C9_FileNameCounted ==
    Applied =>
      /\ fn_out.cat.path_parts = fn_in.segments
      /\ fn_out.cat.depth = Len(fn_in.segments)
      /\ fn_out.gsc.depth = Len(fn_in.segments)
      /\ fn_in.segments = XYZ =>
           /\ fn_out.cat.depth = 3 /\ fn_out.gsc.depth = 3
           /\ fn_out.cat.path_parts = XYZ
           /\ fn_out.cat.file_extension = Html /\ fn_out.gsc.file_ext = Html
      /\ QueryOnly(fn_in) =>
           /\ fn_out.cat.depth = 0 /\ fn_out.gsc.depth = 0
           /\ fn_out.cat.path_parts = <<>>
      /\ IF fn_in.segments # <<>> /\ fn_in.segments[Len(fn_in.segments)] = XYZ[3]
         THEN fn_out.cat.file_extension = Html /\ fn_out.gsc.file_ext = Html
         ELSE fn_out.cat.file_extension = None /\ fn_out.gsc.file_ext = Html

\* the analyzers have been applied to https://a.com/x/y/z.html
C9_Witness ==
    /\ Applied
    /\ fn_in.segments = XYZ /\ ~fn_in.slash /\ ~fn_in.query
    /\ fn_out.cat.depth = 3

\* the words of the text "cat cat dog dog dog bird"
CatDogBird ==
    <<<<"c", "a", "t">>, <<"c", "a", "t">>, <<"d", "o", "g">>, <<"d", "o", "g">>, <<"d", "o", "g">>, <<"b", "i", "r", "d">>>>

\* the words of fn_in that are alphabetic and longer than MinWordLen
Kept == {i \in DOMAIN fn_in : Len(fn_in[i]) > MinWordLen /\ IsAlpha(fn_in[i])}

\* the place of the first word of fn_in that lower-cases to w
FirstAt(w) == CHOOSE i \in Kept : Lower(fn_in[i]) = w /\ \A j \in Kept : Lower(fn_in[j]) = w => i <= j

\* C10 as claimed: the top keyword of "cat cat dog dog dog bird" is
\* ("dog", 3), dog being the only word that qualifies.
C10_DogTop ==
    (Applied /\ fn_in = CatDogBird) =>
        /\ fn_out.cat = <<<<<<"d", "o", "g">>, 3>>>>
        /\ fn_out.gsc = <<<<<<"d", "o", "g">>, 3>>>>

\* C10 as amended: the keywords are the lower-cased alphabetic words longer
\* than 3 characters, each with the number of its occurrences, the larger
\* count first and among equal counts the word met first; so the top and
\* only keyword of "cat cat dog dog dog bird" is ("bird", 1): "dog" and
\* "cat" have 3 characters and do not qualify.
C10_BirdTop ==
    Applied =>
        LET out == fn_out.cat
        IN  /\ fn_out.gsc = out
            /\ {out[k][1] : k \in DOMAIN out} = {Lower(fn_in[i]) : i \in Kept}
            /\ \A k \in DOMAIN out :
                  out[k][2] = Cardinality({i \in Kept : Lower(fn_in[i]) = out[k][1]})
            /\ \A k, l \in DOMAIN out : k < l =>
                  /\ out[k][1] # out[l][1]
                  /\ out[k][2] >= out[l][2]
                  /\ out[k][2] = out[l][2] => FirstAt(out[k][1]) < FirstAt(out[l][1])
            /\ fn_in = CatDogBird => out = <<<<<<"b", "i", "r", "d">>, 1>>>>

\* the keywords of "cat cat dog dog dog bird" have been extracted
C10_Witness ==
    /\ Applied
    /\ fn_in = CatDogBird
    /\ Len(fn_out.cat) = 1

(***************************************************************************)
(* The properties of the links and of the frontier.                        *)
(***************************************************************************)
\* an absolute URL without a fragment that the URL Scoper accepts
CleanLink(url) ==
    /\ urlparse(url).scheme \in HttpSchemes
    /\ urlparse(url).netloc # <<>>
    /\ HostInScope(url)
    /\ ~InList("#", url)

\* two URLs that differ only in their fragment
SameButFragment(u, v) == u # v /\ StripFragment(u) = StripFragment(v)

\* the links of every record are clean and hold no URL twice
CleanLinks(data) ==
    \A i \in DOMAIN data :
        /\ data[i].status = "success"
        /\ NoDuplicates(data[i].links)
        /\ \A k \in DOMAIN data[i].links : CleanLink(data[i].links[k])

\* C11: the links of every successful record are absolute URLs without a
\* fragment that the URL Scoper accepts, none of them twice, and no two URLs
\* that differ only in their fragment are ever pending or fetched.
C11_LinksStripped ==
    /\ CleanLinks(site_data)
    /\ CleanLinks(gsc_site_data)
    /\ \A u, v \in Range(to_crawl) \cup crawled : ~SameButFragment(u, v)
    /\ \A u, v \in Range(todo) \cup done : ~SameButFragment(u, v)

\* list a is the beginning of list b
IsPrefix(a, b) == Len(a) <= Len(b) /\ SubSeq(b, 1, Len(a)) = a

\* the entries of a log whose fetch succeeded, in the order of the log
RECURSIVE LoadedOf(_)
LoadedOf(log) ==
    IF log = <<>> THEN <<>>
    ELSE IF Served(Head(log), site) THEN <<Head(log)>> \o LoadedOf(Tail(log))
         ELSE LoadedOf(Tail(log))

\* the breadth-first order of the site as URLCat.py sees it: the seed, then
\* the links of the first URL that are new, then those of the second, ...
RECURSIVE DiscoveryOrder(_, _)
DiscoveryOrder(list, i) ==
    IF i > Len(list) THEN list
    ELSE DiscoveryOrder(
             FirstOccurrences(list \o extract_page_content(list[i], site, domain).links),
             i + 1)

\* the same as URLCat_GSC.py sees it
RECURSIVE GscDiscoveryOrder(_, _)
GscDiscoveryOrder(list, i) ==
    IF i > Len(list) THEN list
    ELSE GscDiscoveryOrder(
             FirstOccurrences(list \o gsc_extract_page_content(list[i], site, domain).links),
             i + 1)

\* C12: the URLs are fetched in the order of their first discovery, the seed
\* first and then breadth-first, the pending URLs follow in that order, and
\* the result set lists the pages that loaded in the order of their fetch.
C12_FetchedInDiscoveryOrder ==
    /\ IsPrefix(fetched \o to_crawl, DiscoveryOrder(<<base_url>>, 1))
    /\ IsPrefix(gsc_fetched \o todo, GscDiscoveryOrder(<<gsc_base_url>>, 1))
    /\ Urls(site_data) = LoadedOf(fetched)
    /\ Urls(gsc_site_data) = LoadedOf(gsc_fetched)

\* in both runs the seed had two links, which were fetched second and third,
\* and the page fetched second had a new link of its own
C12_Witness ==
    /\ BothReturned
    /\ Len(fetched) >= 3 /\ Len(gsc_fetched) >= 3
    /\ Len(site_data) >= 2 /\ Len(gsc_site_data) >= 2
    /\ site_data[1].links = <<fetched[2], fetched[3]>>
    /\ gsc_site_data[1].links = <<gsc_fetched[2], gsc_fetched[3]>>
    /\ site_data[2].url = fetched[2] /\ gsc_site_data[2].url = gsc_fetched[2]
    /\ \E k \in DOMAIN site_data[2].links :
           site_data[2].links[k] \notin {fetched[1], fetched[2], fetched[3]}

\* the queue holds no URL twice and no URL that has been visited
FreshQueue(queue, visited) ==
    /\ NoDuplicates(queue)
    /\ Range(queue) \cap visited = {}

\* an iteration of a loop fetches exactly one URL, the head of its queue
OneFetch(queue, visited, log, nextVisited, nextLog) ==
    /\ nextLog = Append(log, Head(queue))
    /\ nextVisited = visited \cup {Head(queue)}
    /\ Head(queue) \notin visited

\* C13: whenever a loop is at its head the pending queue holds no URL twice
\* and none that is visited, so no popped URL is discarded: every iteration
\* fetches exactly one URL.
C13_QueueFresh ==
    /\ [](FreshQueue(to_crawl, crawled) /\ FreshQueue(todo, done))
    /\ [][CrawlIteration => OneFetch(to_crawl, crawled, fetched, crawled', fetched')]_vars
    /\ [][GscIteration => OneFetch(todo, done, gsc_fetched, done', gsc_fetched')]_vars

\* in both runs the page fetched second links to a URL that was pending at
\* that time, which is fetched third
C13_Witness ==
    /\ BothReturned
    /\ Len(fetched) >= 3 /\ Len(gsc_fetched) >= 3
    /\ Len(site_data) >= 2 /\ Len(gsc_site_data) >= 2
    /\ site_data[2].url = fetched[2] /\ gsc_site_data[2].url = gsc_fetched[2]
    /\ InList(fetched[3], site_data[1].links) /\ InList(fetched[3], site_data[2].links)
    /\ InList(gsc_fetched[3], gsc_site_data[1].links)
    /\ InList(gsc_fetched[3], gsc_site_data[2].links)

\* C14: in URLCat_GSC.py with a budget of at least 1 the visited and the
\* pending URLs together are never more than max_pages.
C14_FrontierWithinBudget ==
    max_pages >= 1 => Cardinality(done) + Len(todo) <= max_pages

\* on the same site the cap of URLCat_GSC.py has kept a link of a loaded page
\* out of its queue, and the queue of URLCat.py has grown beyond the budget
C14_Witness ==
    /\ BothReturned
    /\ max_pages >= 2
    /\ Cardinality(done) + Len(todo) = max_pages
    /\ \E i \in DOMAIN gsc_site_data : \E k \in DOMAIN gsc_site_data[i].links :
           gsc_site_data[i].links[k] \notin done \cup Range(todo)
    /\ Cardinality(crawled) + Len(to_crawl) > max_pages

\* the two programs are given the same seed and extract the same list of
\* links from every page that either of them has visited
SameInputs ==
    /\ gsc_base_url = base_url
    /\ \A u \in crawled \cup done :
           extract_page_content(u, site, domain).links
               = gsc_extract_page_content(u, site, domain).links

\* C15: on the same seed, budget, fetch outcomes and link lists the loop of
\* URLCat_GSC.py fetches the URLs that the loop of URLCat.py has fetched, in
\* the same order, and its result set lists the same URLs in the same order:
\* at every point of its run a beginning of them, at its end all of them.
C15_SameFetches ==
    (pc = "returned" /\ SameInputs) =>
        /\ IsPrefix(gsc_fetched, fetched)
        /\ IsPrefix(Urls(gsc_site_data), Urls(site_data))
        /\ gsc_pc = "returned" =>
             /\ gsc_fetched = fetched
             /\ Urls(gsc_site_data) = Urls(site_data)

\* both runs have ended on a site where the cap kept a link out of the queue
\* of URLCat_GSC.py, so that the two queues differ, after several fetches
C15_Witness ==
    /\ BothReturned
    /\ SameInputs
    /\ Len(gsc_fetched) >= 2 /\ Len(gsc_site_data) >= 2
    /\ to_crawl # <<>> /\ todo = <<>>

====
